---------------------------- MODULE Spec2Model ----------------------------
(***************************************************************************)
(* Evaluation input pipeline of vmoe/data/input_pipeline.py together with  *)
(* the custom ImageNet validation source of custom_imagenet_tfds.py.       *)
(*                                                                         *)
(* Four specifications share the operators that model the code:           *)
(*   ClusterSpec  every process of a job runs _get_custom_tfds_dataset on  *)
(*                the same configuration (one atomic run per process);     *)
(*   Spec         one process runs get_eval_dataset / get_dataset step by  *)
(*                step;                                                    *)
(*   ComposeSpec  the function built by _compose_fns applied to a value;   *)
(*   CacheSpec    a sequence of _get_info_splits lookups in one process.   *)
(***************************************************************************)
EXTENDS Integers, Sequences, FiniteSets

VARIABLES
  config,         \* ClusterSpec: the configuration shared by all processes
  runs,           \* ClusterSpec: process id -> outcome of its pipeline run
  topo,           \* Spec: jax.process_index/process_count/device_count
  call,           \* Spec: the entry point being executed and its config
  stage,          \* Spec: position inside the current pipeline assembly
  locals,         \* Spec: local variables of the current assembly
  datasets,       \* Spec: the `datasets` dict of get_eval_dataset (its keys)
  returned,       \* Spec: what the caller of the entry point received
  visited,        \* Spec: stages completed by the current assembly, in order
  cache,          \* the memo cache of _get_info_splits: key -> metadata
  providerCalls,  \* number of tfds.builder(...) calls made so far
  lastLookup,     \* CacheSpec: arguments and result of the latest lookup
  fns,            \* ComposeSpec: the transforms given to _compose_fns
  composeIn,      \* ComposeSpec: the argument of the composed function
  data,           \* ComposeSpec: the value flowing through the composed fn
  fnPos,          \* ComposeSpec: index of the next transform to apply
  composeOut      \* ComposeSpec: how the composed call ended

vars == <<config, runs, topo, call, stage, locals, datasets, returned,
          visited, cache, providerCalls, lastLookup, fns, composeIn, data,
          fnPos, composeOut>>

clusterVars == <<config, runs>>
pipeVars    == <<topo, call, stage, locals, datasets, returned, visited>>
cacheVars   == <<cache, providerCalls, lastLookup>>
composeVars == <<fns, composeIn, data, fnPos, composeOut>>

---------------------------------------------------------------------------
(* Bounds of the model.                                                    *)

MaxExamples == 5      \* largest num_examples of the split
MaxProcs == 3         \* largest jax.process_count()
MaxBatch == 6         \* largest global batch_size
MaxLines == 1         \* largest of the very short label files (lines)

---------------------------------------------------------------------------
(* Program constants.                                                      *)

\* custom_imagenet_tfds.py: `if idx > 1023: break`
LabelBreakIdx == 1023
\* input_pipeline.py: `data.batch(9, drop_remainder=True)`
HardBatch == 9
\* Python None, for an absent bound of an absolute read instruction.
None == -1

Min(a, b) == IF a < b THEN a ELSE b

\* A value that is not a dict.
NoneValue == [isdict |-> FALSE, keys |-> {}]

\* int(bool)
BoolToInt(b) == IF b THEN 1 ELSE 0

\* Python `x or d` for x an int or None: None and 0 are both falsy.
PyOr(x, d) == IF x = None \/ x = 0 THEN d ELSE x

---------------------------------------------------------------------------
(* _get_custom_data_range                                                  *)

\* What ReadInstruction.from_spec(split).to_absolute(info_splits) yields for
\* the slice [f:t] of a split of `total` examples: a bound equal to the
\* default (0, total) is reported as None.
AbsInstr(f, t, total) ==
  [from_ |-> IF f = 0 THEN None ELSE f,
   to    |-> IF t = total THEN None ELSE t]

FullStart(full_range) == PyOr(full_range.from_, 0)

FullEnd(full_range, full_range_examples) ==
  PyOr(full_range.to, full_range_examples)

ExamplesPerHost(full_start, full_end, process_count) ==
  (full_end - full_start) \div process_count

Remainder(full_start, full_end, process_count) ==
  (full_end - full_start) % process_count

\* Mutant: the first `remainder` hosts' extra examples are not skipped.
MutRangeStartNoShift(full_start, full_end, process_id, process_count) ==
  full_start
    + ExamplesPerHost(full_start, full_end, process_count) * process_id

RangeStart(full_start, full_end, process_id, process_count) ==
  LET examples_per_host == ExamplesPerHost(full_start, full_end, process_count)
      remainder == Remainder(full_start, full_end, process_count)
  IN  full_start + examples_per_host * process_id
        + (IF process_id < remainder THEN process_id ELSE remainder)

\* Mutant: the first `remainder` hosts do not get their extra example.
MutRangeEndNoExtra(full_start, full_end, process_id, process_count) ==
  RangeStart(full_start, full_end, process_id, process_count)
    + ExamplesPerHost(full_start, full_end, process_count)

RangeEnd(full_start, full_end, process_id, process_count) ==
  LET examples_per_host == ExamplesPerHost(full_start, full_end, process_count)
      remainder == Remainder(full_start, full_end, process_count)
  IN  RangeStart(full_start, full_end, process_id, process_count)
        + examples_per_host
        + (IF process_id < remainder THEN 1 ELSE 0)

\* Mutant: the flag marks the hosts that got the extra example.
MutSmallerRangeFirst(full_start, full_end, process_id, process_count) ==
  LET remainder == Remainder(full_start, full_end, process_count)
  IN  remainder > 0 /\ process_id < remainder

SmallerRange(full_start, full_end, process_id, process_count) ==
  LET remainder == Remainder(full_start, full_end, process_count)
  IN  remainder > 0 /\ process_id >= remainder

\* abs_ri is the sequence of absolute instructions; the assertion on its
\* length is checked by the caller of this operator (MultiBlock).
_get_custom_data_range(num_examples, abs_ri, process_id, process_count) ==
  LET full_range == abs_ri[1]
      full_start == FullStart(full_range)
      full_end   == FullEnd(full_range, num_examples)
  IN  [start |-> RangeStart(full_start, full_end, process_id, process_count),
       end   |-> RangeEnd(full_start, full_end, process_id, process_count),
       smaller_range |->
         SmallerRange(full_start, full_end, process_id, process_count)]

MultiBlock(abs_ri) == Len(abs_ri) # 1

---------------------------------------------------------------------------
(* Batch size check and padding of _get_custom_tfds_dataset / get_dataset  *)

\* Mutant: the device count is not checked.
MutBatchRejectProcessOnly(batch_size, process_count, device_count) ==
  batch_size % process_count # 0

BatchSizeRejected(batch_size, process_count, device_count) ==
  (batch_size % process_count # 0) \/ (batch_size % device_count # 0)

BatchSizePerProcess(batch_size, process_count) ==
  batch_size \div process_count

\* Mutant: the modulo truncates towards zero, as in C.
MutNumFakeTruncMod(start, end, smaller_range, batch_size_per_process) ==
  BoolToInt(smaller_range)
    - ((end - start + BoolToInt(smaller_range)) % batch_size_per_process)

\* Mutant: the one-example top-up of a smaller range is forgotten.
MutNumFakeNoTopUp(start, end, smaller_range, batch_size_per_process) ==
  (-(end - start)) % batch_size_per_process

\* num_fake_examples; the caller guarantees batch_size_per_process # 0
\* (a zero divisor raises ZeroDivisionError, see PadFails).
NumFakeExamples(start, end, smaller_range, batch_size_per_process) ==
  BoolToInt(smaller_range)
    + ((-(end - start + BoolToInt(smaller_range))) % batch_size_per_process)

PadFails(batch_size_per_process) == batch_size_per_process = 0

\* data.batch(9, drop_remainder=True) over a stream of `length` records.
NumBatches(length) == length \div HardBatch

---------------------------------------------------------------------------
(* Custom_Imagenet2012_val_tfds                                            *)

\* _get_imgname_class_dict keeps one entry per line read, and stops after
\* the line with idx > 1023; get_tf_dataset yields one record per entry.
\* The records are those with indices lo .. hi-1 of the label file.
CustomImagenetSource(lines) ==
  [lo |-> 0, hi |-> Min(lines, LabelBreakIdx + 2)]

\* Label files: very short ones, ones around one hard-coded batch, and
\* ones that reach the break.
LabelLineChoices ==
  (0 .. MaxLines) \cup {HardBatch - 1, HardBatch}
    \cup {LabelBreakIdx + 2, LabelBreakIdx + 3}

\* jax.device_count() / jax.process_count(): devices of each process.
LocalDeviceChoices == {1, 2}

---------------------------------------------------------------------------
(* One whole run of _get_custom_tfds_dataset(variant='test', ...) on       *)
(* process `process_index`, as a value, for a dataset whose metadata and   *)
(* label file are found and a process string that parses.  The order of    *)
(* the records (shuffle) is not modelled, only which records the stream    *)
(* holds.                                                                  *)

NoRun ==
  [outcome |-> "pending", start |-> 0, end |-> 0, smaller_range |-> FALSE,
   batch_size_per_process |-> 0, num_fake_examples |-> 0,
   real_lo |-> 0, real_hi |-> 0, batches |-> 0]

_get_custom_tfds_dataset(c, process_index) ==
  LET r == _get_custom_data_range(c.num_examples, c.abs_ri, process_index,
                                  c.process_count)
      ranged == [NoRun EXCEPT !.start = r.start, !.end = r.end,
                              !.smaller_range = r.smaller_range]
      b == BatchSizePerProcess(c.batch_size, c.process_count)
      src == CustomImagenetSource(c.lines)
      loaded == [ranged EXCEPT !.batch_size_per_process = b,
                               !.real_lo = src.lo, !.real_hi = src.hi]
  IN  IF MultiBlock(c.abs_ri)
        THEN [NoRun EXCEPT !.outcome = "AssertionError"]
      ELSE IF BatchSizeRejected(c.batch_size, c.process_count, c.device_count)
        THEN [ranged EXCEPT !.outcome = "ValueError"]
      ELSE IF PadFails(b)
        THEN [loaded EXCEPT !.outcome = "ZeroDivisionError"]
      ELSE LET fake == NumFakeExamples(r.start, r.end, r.smaller_range, b)
           IN  [loaded EXCEPT
                  !.outcome = "ok",
                  !.num_fake_examples = fake,
                  !.batches = NumBatches((src.hi - src.lo) + fake)]

---------------------------------------------------------------------------
(* ClusterSpec: the processes of one job, each running the pipeline once.  *)

Procs(c) == 0 .. (c.process_count - 1)

\* The slices [f:t] of a split of n examples, 0 <= f <= t <= n.
SplitChoices ==
  { s \in (0 .. MaxExamples) \X (0 .. MaxExamples) \X (0 .. MaxExamples) :
      s[2] <= s[3] /\ s[3] <= s[1] }

ClusterConfigs ==
  { [num_examples |-> s[1], abs_ri |-> <<AbsInstr(s[2], s[3], s[1])>>,
     process_count |-> pc, device_count |-> pc * k,
     batch_size |-> bs, lines |-> l] :
      s \in SplitChoices, pc \in 1 .. MaxProcs, k \in LocalDeviceChoices,
      bs \in 0 .. MaxBatch, l \in LabelLineChoices }

---------------------------------------------------------------------------
(* _get_info_splits: the memoised lookup of the split metadata.            *)

\* Mutant: the default key of cachetools, over all the arguments.
MutCacheKeyAllArgs(name, data_dir, manual_dir, try_gcs) ==
  <<name, data_dir, manual_dir, try_gcs>>

\* key=lambda name, data_dir, *_: hashkey(name, data_dir)
CacheKey(name, data_dir, manual_dir, try_gcs) == <<name, data_dir>>

\* What tfds.builder(...).info.splits can answer: the number of examples of
\* the split, or an error (dataset not found).
ProviderAnswers ==
  { [ok |-> TRUE, num_examples |-> n] : n \in 0 .. MaxExamples }
    \cup { [ok |-> FALSE, num_examples |-> 0] }

\* cachetools.cached around the provider call: a stored entry is returned
\* at once; otherwise the provider is called and its answer stored, unless
\* it raised.  `answer` is what the provider would answer now.
_get_info_splits(c, name, data_dir, manual_dir, try_gcs, answer) ==
  LET k == CacheKey(name, data_dir, manual_dir, try_gcs)
  IN  IF k \in DOMAIN c
        THEN [hit |-> TRUE, raised |-> FALSE, value |-> c[k], cache |-> c]
      ELSE IF ~answer.ok
        THEN [hit |-> FALSE, raised |-> TRUE, value |-> 0, cache |-> c]
      ELSE [hit |-> FALSE, raised |-> FALSE, value |-> answer.num_examples,
            cache |-> [x \in DOMAIN c \cup {k} |->
                         IF x = k THEN answer.num_examples ELSE c[x]]]

---------------------------------------------------------------------------
(* get_data_process_fn / _parse_process_op_str                             *)

\* One '|'-separated segment of the process string, by the shape of the
\* expression ast.parse gives for it, and whether pp_ops has the name.
\*   "name"       flip_lr             "call"      resize(128)
\*   "attr_call"  a.b()               "other"     a.b, 3, ...
\*   "nonliteral" f(x)                "syntax"    not an expression
_parse_process_op_str(seg) ==
  CASE seg.kind = "syntax"     -> "SyntaxError"
    [] seg.kind = "other"      -> "ValueError:process"
    [] seg.kind = "name"       -> "ok"
    [] seg.kind = "attr_call"  -> "ValueError:process"
    [] seg.kind = "nonliteral" -> "ValueError:process"
    [] OTHER                   -> "ok"

RECURSIVE get_data_process_fn(_)
\* The outcome of building the transform: the first error, in segment
\* order, of parsing the segment and looking its name up in pp_ops.
get_data_process_fn(process) ==
  IF process = <<>> THEN "ok"
  ELSE LET seg == Head(process)
           parsed == _parse_process_op_str(seg)
       IN  IF parsed # "ok" THEN parsed
           ELSE IF ~seg.known THEN "AttributeError"
           ELSE get_data_process_fn(Tail(process))

Seg(kind, known) == [kind |-> kind, known |-> known]

ProcessChoices ==
  { <<Seg("name", TRUE)>>,
    <<Seg("name", TRUE), Seg("call", TRUE)>>,
    <<Seg("syntax", FALSE)>>,
    <<Seg("name", TRUE), Seg("attr_call", FALSE)>>,
    <<Seg("call", TRUE), Seg("name", FALSE)>>,
    <<Seg("other", FALSE)>>,
    <<Seg("nonliteral", TRUE)>> }

---------------------------------------------------------------------------
(* Spec: one process executing get_eval_dataset or get_dataset.            *)

\* The statements of _get_custom_tfds_dataset in program order, as the
\* positions a run passes through.
StageOrder ==
  <<"Configured", "SplitResolved", "RangeComputed", "BatchChecked",
    "SourceLoaded", "Transformed", "Padded", "Batched", "Ready">>

\* Mutant: the stream is batched before the padding is appended.
MutNextStageBatchFirst(s) ==
  CASE s = "Transformed" -> "Batched"
    [] s = "Batched"     -> "Padded"
    [] s = "Padded"      -> "Ready"
    [] OTHER -> LET i == CHOOSE j \in 1 .. Len(StageOrder) : StageOrder[j] = s
                IN  StageOrder[i + 1]

NextStage(s) ==
  LET i == CHOOSE j \in 1 .. Len(StageOrder) : StageOrder[j] = s
  IN  StageOrder[i + 1]

BatchError == "ValueError:batch_size"

\* What the caller of the entry point has received.
Pending == [kind |-> "pending", error |-> "", keys |-> {}]

\* The local variables of _get_custom_tfds_dataset / get_dataset.
PipeLocals ==
  [num_examples |-> 0, start |-> 0, end |-> 0, smaller_range |-> FALSE,
   batch_size |-> 0, batch_size_per_process |-> 0, num_fake_examples |-> 0,
   real_lo |-> 0, real_hi |-> 0, batches |-> 0]

\* An exception leaves every frame up to the caller: nothing is returned.
Raise(err, built) == [kind |-> "error", error |-> err, keys |-> {}]

Topologies ==
  { [process_index |-> i, process_count |-> pc, device_count |-> pc * k] :
      i \in 0 .. (MaxProcs - 1), pc \in 1 .. MaxProcs,
      k \in LocalDeviceChoices }

\* The `config` mappings given to get_eval_dataset: variant name -> variant
\* config, in iteration order; a variant config may fail to be a ConfigDict.
Entry(v, cd) == [variant |-> v, isConfigDict |-> cd]

EvalConfigs ==
  { <<>>,
    <<Entry("test", TRUE)>>,
    <<Entry("val", TRUE)>>,
    <<Entry("test", FALSE)>>,
    <<Entry("test", TRUE), Entry("val", TRUE)>>,
    <<Entry("test", TRUE), Entry("train", FALSE)>>,
    <<Entry("val", TRUE), Entry("test", TRUE)>> }

\* The split argument as absolute instructions: one block [f:t] of the
\* split, or two blocks ('a+b').
SplitArgs(n) ==
  { <<AbsInstr(s[1], s[2], n)>> :
      s \in { x \in (0 .. n) \X (0 .. n) : x[1] <= x[2] } }
    \cup { <<AbsInstr(0, 0, n), AbsInstr(0, n, n)>> }

DatasetName == "imagenet2012"
DataDir == "./data_dir"
ManualDir == "./manual_dir"

CurrentEntry == call.variants[call.idx]

Fail(err) ==
  /\ stage' = "Raised"
  /\ returned' = Raise(err, datasets)

Advance ==
  /\ stage' = NextStage(stage)
  /\ visited' = Append(visited, NextStage(stage))
  /\ returned' = returned

\* get_eval_dataset is called with a config.
CallGetEvalDataset(variants) ==
  /\ call.fn = "none"
  /\ call' = [fn |-> "get_eval_dataset", variants |-> variants, idx |-> 1]
  /\ stage' = "Loop"
  /\ datasets' = {}
  /\ UNCHANGED <<topo, locals, returned, visited, clusterVars, cacheVars,
                 composeVars>>

\* The loop is over: `return datasets`.
ReturnDatasets ==
  /\ call.fn = "get_eval_dataset" /\ stage = "Loop"
  /\ call.idx > Len(call.variants)
  /\ stage' = "Returned"
  /\ returned' = [kind |-> "datasets", error |-> "", keys |-> datasets]
  /\ UNCHANGED <<topo, call, locals, datasets, visited, clusterVars,
                 cacheVars, composeVars>>

\* Loop body up to the call of _get_custom_tfds_dataset and its first
\* statement: the isinstance check, then `assert variant=='test'`.
EnterAssembly ==
  /\ call.fn = "get_eval_dataset" /\ stage = "Loop"
  /\ call.idx <= Len(call.variants)
  /\ IF ~CurrentEntry.isConfigDict
       THEN Fail("TypeError") /\ UNCHANGED <<visited, locals>>
     ELSE IF CurrentEntry.variant # "test"
       THEN Fail("AssertionError") /\ UNCHANGED <<visited, locals>>
     ELSE /\ stage' = "Configured"
          /\ visited' = <<"Configured">>
          /\ locals' = PipeLocals
          /\ returned' = returned
  /\ UNCHANGED <<topo, call, datasets, clusterVars, cacheVars, composeVars>>

\* info_splits = _get_info_splits(name, data_dir, manual_dir, try_gcs)
ResolveSplit(answer) ==
  /\ stage = "Configured"
  /\ LET got == _get_info_splits(cache, DatasetName, DataDir, ManualDir,
                                 FALSE, answer)
     IN  /\ cache' = got.cache
         /\ providerCalls' = providerCalls + (IF got.hit THEN 0 ELSE 1)
         /\ IF got.raised
              THEN Fail("DatasetNotFoundError") /\ UNCHANGED <<visited, locals>>
              ELSE Advance /\ locals' = [locals EXCEPT !.num_examples = got.value]
  /\ UNCHANGED <<topo, call, datasets, lastLookup, clusterVars, composeVars>>

\* _get_custom_data_range(info_splits, split, process_index, process_count)
ComputeRange(abs_ri) ==
  /\ stage = "SplitResolved"
  /\ IF MultiBlock(abs_ri)
       THEN Fail("AssertionError") /\ UNCHANGED <<visited, locals>>
       ELSE LET r == _get_custom_data_range(locals.num_examples, abs_ri,
                       topo.process_index, topo.process_count)
            IN  /\ Advance
                /\ locals' = [locals EXCEPT !.start = r.start, !.end = r.end,
                                !.smaller_range = r.smaller_range]
  /\ UNCHANGED <<topo, call, datasets, clusterVars, cacheVars, composeVars>>

\* The batch size check and batch_size_per_process.
CheckBatchSize(batch_size) ==
  /\ stage = "RangeComputed"
  /\ IF BatchSizeRejected(batch_size, topo.process_count, topo.device_count)
       THEN /\ Fail(BatchError)
            /\ locals' = [locals EXCEPT !.batch_size = batch_size]
            /\ UNCHANGED visited
       ELSE /\ Advance
            /\ locals' = [locals EXCEPT
                 !.batch_size = batch_size,
                 !.batch_size_per_process =
                    BatchSizePerProcess(batch_size, topo.process_count)]
  /\ UNCHANGED <<topo, call, datasets, clusterVars, cacheVars, composeVars>>

\* data = _get_custom_imagenet_tfds(); shuffle; optional cache.  The label
\* file has `lines` lines, or cannot be opened.
LoadSource(lines, readable) ==
  /\ stage = "BatchChecked"
  /\ IF ~readable
       THEN Fail("FileNotFoundError") /\ UNCHANGED <<visited, locals>>
       ELSE /\ Advance
            /\ LET src == CustomImagenetSource(lines)
               IN  locals' = [locals EXCEPT !.real_lo = src.lo,
                                           !.real_hi = src.hi]
  /\ UNCHANGED <<topo, call, datasets, clusterVars, cacheVars, composeVars>>

\* process_fn = _compose_fns(get_data_process_fn(process), ...); data.map
BuildTransform(process) ==
  /\ stage = "SourceLoaded"
  /\ LET built == get_data_process_fn(process)
     IN  IF built # "ok"
           THEN Fail(built) /\ UNCHANGED visited
           ELSE Advance
  /\ UNCHANGED <<topo, call, locals, datasets, clusterVars, cacheVars,
                 composeVars>>

\* num_fake_examples and the concatenation of the padding records.
AppendPadding ==
  /\ stage = "Transformed"
  /\ IF PadFails(locals.batch_size_per_process)
       THEN Fail("ZeroDivisionError") /\ UNCHANGED <<visited, locals>>
       ELSE /\ Advance
            /\ locals' = [locals EXCEPT !.num_fake_examples =
                 NumFakeExamples(locals.start, locals.end,
                   locals.smaller_range, locals.batch_size_per_process)]
  /\ UNCHANGED <<topo, call, datasets, clusterVars, cacheVars, composeVars>>

\* data.batch(9, drop_remainder=True)
BatchData ==
  /\ stage = "Padded"
  /\ Advance
  /\ locals' = [locals EXCEPT !.batches =
       NumBatches((locals.real_hi - locals.real_lo)
                    + locals.num_fake_examples)]
  /\ UNCHANGED <<topo, call, datasets, clusterVars, cacheVars, composeVars>>

\* Optional cache and prefetch; `return data`.
FinishAssembly ==
  /\ stage = "Batched"
  /\ Advance
  /\ UNCHANGED <<topo, call, locals, datasets, clusterVars, cacheVars,
                 composeVars>>

\* datasets[variant] = <the returned dataset>; next iteration.
StoreDataset ==
  /\ call.fn = "get_eval_dataset" /\ stage = "Ready"
  /\ datasets' = datasets \cup {CurrentEntry.variant}
  /\ call' = [call EXCEPT !.idx = call.idx + 1]
  /\ stage' = "Loop"
  /\ UNCHANGED <<topo, locals, returned, visited, clusterVars, cacheVars,
                 composeVars>>

IdleConfig ==
  [num_examples |-> 0, abs_ri |-> <<AbsInstr(0, 0, 0)>>, process_count |-> 1,
   device_count |-> 1, batch_size |-> 0, lines |-> 0]

ClusterIdle ==
  /\ config = IdleConfig
  /\ runs = <<>>

IdleTopo == [process_index |-> 0, process_count |-> 1, device_count |-> 1]
IdleCall == [fn |-> "none", variants |-> <<>>, idx |-> 0]
IdleLookup == [name |-> "", data_dir |-> "", manual_dir |-> "",
               try_gcs |-> FALSE, hit |-> FALSE, result |-> 0,
               outcome |-> "none"]
EmptyCache == [k \in {} |-> 0]

PipeIdle ==
  /\ topo = IdleTopo
  /\ call = IdleCall
  /\ stage = "Idle"
  /\ locals = PipeLocals
  /\ datasets = {}
  /\ returned = Pending
  /\ visited = <<>>

CacheIdle ==
  /\ cache = EmptyCache
  /\ providerCalls = 0
  /\ lastLookup = IdleLookup

ComposeIdle ==
  /\ fns = <<>>
  /\ composeIn = NoneValue
  /\ data = NoneValue
  /\ fnPos = 0
  /\ composeOut = "idle"

ClusterInit ==
  /\ config \in ClusterConfigs
  /\ runs = [p \in Procs(config) |-> NoRun]
  /\ PipeIdle /\ CacheIdle /\ ComposeIdle

RunProcess(p) ==
  /\ runs[p].outcome = "pending"
  /\ runs' = [runs EXCEPT ![p] = _get_custom_tfds_dataset(config, p)]
  /\ UNCHANGED <<config, pipeVars, cacheVars, composeVars>>

ClusterNext == \E p \in Procs(config) : RunProcess(p)

ClusterSpec == ClusterInit /\ [][ClusterNext]_vars

\* get_dataset is called: the DatasetBuilder is created.
CallGetDataset(variant) ==
  /\ call.fn = "none"
  /\ call' = [fn |-> "get_dataset", variants |-> <<Entry(variant, TRUE)>>,
              idx |-> 1]
  /\ stage' = "GdBuilt"
  /\ visited' = <<"GdBuilt">>
  /\ UNCHANGED <<topo, locals, datasets, returned, clusterVars, cacheVars,
                 composeVars>>

\* get_dataset: the batch size check and batch_size_per_process.
GdCheckBatchSize(batch_size) ==
  /\ stage = "GdBuilt"
  /\ IF BatchSizeRejected(batch_size, topo.process_count, topo.device_count)
       THEN /\ Fail(BatchError)
            /\ locals' = [locals EXCEPT !.batch_size = batch_size]
            /\ UNCHANGED visited
       ELSE /\ stage' = "GdChecked"
            /\ visited' = Append(visited, "GdChecked")
            /\ returned' = returned
            /\ locals' = [locals EXCEPT
                 !.batch_size = batch_size,
                 !.batch_size_per_process =
                    BatchSizePerProcess(batch_size, topo.process_count)]
  /\ UNCHANGED <<topo, call, datasets, clusterVars, cacheVars, composeVars>>

\* builder.get_num_fake_examples(batch_size_per_process) of the
\* DatasetBuilder (vmoe.data.builder) for a stream of `records` examples:
\* the number of records that fills the stream up to a multiple of
\* batch_size_per_process.  The caller guarantees a divisor # 0 (a zero
\* divisor raises ZeroDivisionError in the builder, see PadFails).
get_num_fake_examples(records, batch_size_per_process) ==
  (-records) % batch_size_per_process

\* What tf raises for data.batch(0, drop_remainder=True): a ValueError that
\* is not the one of the batch size check.  Every ValueError other than
\* that of the batch size check carries this tag.
BatchZeroError == "ValueError:process"

\* get_dataset: data = builder.as_dataset(), optional cache, repeat and
\* shuffle for 'train'.  The stream the builder yields on this process
\* holds `lines` records.
GdAsDataset(lines) ==
  /\ stage = "GdChecked"
  /\ stage' = "GdLoaded"
  /\ visited' = Append(visited, "GdLoaded")
  /\ locals' = [locals EXCEPT !.real_lo = 0, !.real_hi = lines]
  /\ UNCHANGED <<topo, call, datasets, returned, clusterVars, cacheVars,
                 composeVars>>

\* get_dataset: the transform is built and mapped; for other variants than
\* 'train' the stream is padded with builder.get_num_fake_examples records;
\* the stream is batched by batch_size_per_process and returned.  The
\* 'train' stream is repeated forever, its batches are not counted.
GdFinish(process) ==
  /\ stage = "GdLoaded"
  /\ LET built == get_data_process_fn(process)
         b == locals.batch_size_per_process
         records == locals.real_hi - locals.real_lo
     IN  IF built # "ok"
           THEN Fail(built) /\ UNCHANGED <<visited, locals>>
         ELSE IF CurrentEntry.variant # "train" /\ PadFails(b)
           THEN Fail("ZeroDivisionError") /\ UNCHANGED <<visited, locals>>
         ELSE IF b = 0
           THEN Fail(BatchZeroError) /\ UNCHANGED <<visited, locals>>
         ELSE /\ stage' = "Returned"
              /\ visited' = Append(visited, "GdReady")
              /\ returned' = [kind |-> "dataset", error |-> "",
                              keys |-> {CurrentEntry.variant}]
              /\ locals' =
                   IF CurrentEntry.variant = "train" THEN locals
                   ELSE LET fake == get_num_fake_examples(records, b)
                        IN  [locals EXCEPT
                               !.num_fake_examples = fake,
                               !.batches = (records + fake) \div b]
  /\ UNCHANGED <<topo, call, datasets, clusterVars, cacheVars, composeVars>>

Init ==
  /\ topo \in Topologies
  /\ topo.process_index < topo.process_count
  /\ call = IdleCall
  /\ stage = "Idle"
  /\ locals = PipeLocals
  /\ datasets = {}
  /\ returned = Pending
  /\ visited = <<>>
  /\ ClusterIdle /\ CacheIdle /\ ComposeIdle

Next ==
  \/ \E variants \in EvalConfigs : CallGetEvalDataset(variants)
  \/ ReturnDatasets
  \/ EnterAssembly
  \/ \E answer \in ProviderAnswers : ResolveSplit(answer)
  \/ \E abs_ri \in SplitArgs(locals.num_examples) : ComputeRange(abs_ri)
  \/ \E batch_size \in 0 .. MaxBatch : CheckBatchSize(batch_size)
  \/ \E lines \in LabelLineChoices, readable \in BOOLEAN :
       LoadSource(lines, readable)
  \/ \E process \in ProcessChoices : BuildTransform(process)
  \/ AppendPadding
  \/ BatchData
  \/ FinishAssembly
  \/ StoreDataset
  \/ \E variant \in {"train", "test"} : CallGetDataset(variant)
  \/ \E batch_size \in 0 .. MaxBatch : GdCheckBatchSize(batch_size)
  \/ \E lines \in LabelLineChoices : GdAsDataset(lines)
  \/ \E process \in ProcessChoices : GdFinish(process)

Spec == Init /\ [][Next]_vars

---------------------------------------------------------------------------
(* CacheSpec: a sequence of _get_info_splits calls in one process.         *)

MaxProviderCalls == 4
MaxCacheMeta == 1

\* The answers of the provider tried in CacheSpec.
CacheAnswers ==
  { a \in ProviderAnswers : a.num_examples <= MaxCacheMeta }

Names == {"imagenet2012", "cifar10"}
DataDirs == {"./data_dir", "/other"}
ManualDirs == {"./manual_dir", "/m2"}

CacheInit ==
  /\ CacheIdle
  /\ ClusterIdle /\ PipeIdle /\ ComposeIdle

Lookup(name, data_dir, manual_dir, try_gcs, answer) ==
  LET got == _get_info_splits(cache, name, data_dir, manual_dir, try_gcs,
                              answer)
  IN  /\ got.hit \/ providerCalls < MaxProviderCalls
      /\ cache' = got.cache
      /\ providerCalls' = providerCalls + (IF got.hit THEN 0 ELSE 1)
      /\ lastLookup' =
           [name |-> name, data_dir |-> data_dir, manual_dir |-> manual_dir,
            try_gcs |-> try_gcs, hit |-> got.hit, result |-> got.value,
            outcome |-> IF got.raised THEN "raised" ELSE "returned"]
      /\ UNCHANGED <<clusterVars, pipeVars, composeVars>>

CacheNext ==
  \E name \in Names, data_dir \in DataDirs, manual_dir \in ManualDirs,
     try_gcs \in BOOLEAN, answer \in CacheAnswers :
    Lookup(name, data_dir, manual_dir, try_gcs, answer)

CacheSpec == CacheInit /\ [][CacheNext]_vars

---------------------------------------------------------------------------
(* ComposeSpec: the function built by _compose_fns, on one value.      *)

MaxFns == 3

Transforms == {"add_y", "only_x", "to_none", "wrap"}

InputValues ==
  { [isdict |-> TRUE, keys |-> ks] : ks \in SUBSET {"x", "y"} }
    \cup {NoneValue}

\* What one transform does to a value.  add_y and only_x index their
\* argument as a mapping and raise on anything else; to_none returns None
\* and wrap a fresh dict, whatever they are given.
ApplyTransform(f, v) ==
  CASE f = "add_y" ->
         IF v.isdict
           THEN [raised |-> FALSE,
                 value |-> [isdict |-> TRUE, keys |-> v.keys \cup {"y"}]]
           ELSE [raised |-> TRUE, value |-> v]
    [] f = "only_x" ->
         IF v.isdict
           THEN [raised |-> FALSE,
                 value |-> [isdict |-> TRUE, keys |-> v.keys \cap {"x"}]]
           ELSE [raised |-> TRUE, value |-> v]
    [] f = "to_none" -> [raised |-> FALSE, value |-> NoneValue]
    [] OTHER -> [raised |-> FALSE, value |-> [isdict |-> TRUE, keys |-> {"x"}]]

\* Mutant: the isinstance check is missing.
MutComposeNeverRejects(v) == FALSE

\* if not isinstance(data, dict): raise TypeError
ComposeRejects(v) == ~v.isdict

RECURSIVE SeqsUpTo(_, _)
SeqsUpTo(S, n) ==
  IF n = 0 THEN {<<>>}
  ELSE LET shorter == SeqsUpTo(S, n - 1)
       IN  shorter \cup { Append(q, e) : q \in shorter, e \in S }

ComposeInit ==
  /\ fns \in SeqsUpTo(Transforms, MaxFns)
  /\ composeIn \in InputValues
  /\ data = composeIn
  /\ fnPos = 0
  /\ composeOut = "idle"
  /\ ClusterIdle /\ PipeIdle /\ CacheIdle

\* fn(data) is called: the check of the argument.
ComposeCall ==
  /\ composeOut = "idle"
  /\ IF ComposeRejects(data)
       THEN composeOut' = "TypeError" /\ fnPos' = fnPos
       ELSE composeOut' = "running" /\ fnPos' = 1
  /\ UNCHANGED <<fns, composeIn, data, clusterVars, pipeVars, cacheVars>>

\* One iteration of the loop: data = f(data).
ComposeStep ==
  /\ composeOut = "running" /\ fnPos <= Len(fns)
  /\ LET r == ApplyTransform(fns[fnPos], data)
     IN  IF r.raised
           THEN composeOut' = "StageError" /\ UNCHANGED <<data, fnPos>>
           ELSE /\ data' = r.value
                /\ fnPos' = fnPos + 1
                /\ composeOut' = composeOut
  /\ UNCHANGED <<fns, composeIn, clusterVars, pipeVars, cacheVars>>

\* return data
ComposeReturn ==
  /\ composeOut = "running" /\ fnPos > Len(fns)
  /\ composeOut' = "returned"
  /\ UNCHANGED <<fns, composeIn, data, fnPos, clusterVars, pipeVars,
                 cacheVars>>

ComposeNext == ComposeCall \/ ComposeStep \/ ComposeReturn

ComposeSpec == ComposeInit /\ [][ComposeNext]_vars

---------------------------------------------------------------------------
(* Properties of the partition and of the padding, over ClusterSpec.       *)

Done == { p \in Procs(config) : runs[p].outcome # "pending" }
Ok == { p \in Procs(config) : runs[p].outcome = "ok" }
AllDone == Done = Procs(config)

ConfigStart == FullStart(config.abs_ri[1])
ConfigEnd == FullEnd(config.abs_ri[1], config.num_examples)
ConfigN == ConfigEnd - ConfigStart

RangeSet(r) == r.start .. (r.end - 1)
RangeSize(r) == r.end - r.start
RealExamples(r) == r.real_lo .. (r.real_hi - 1)

RECURSIVE SumSizes(_)
SumSizes(ps) ==
  IF ps = {} THEN 0
  ELSE LET p == CHOOSE q \in ps : TRUE
       IN  RangeSize(runs[p]) + SumSizes(ps \ {p})

\* C1: for n = full_end - full_start >= 0 and process_count >= 1 the ranges
\* returned for the process ids are pairwise disjoint, contiguous in
\* ascending process id order, cover exactly [full_start, full_end) (their
\* sizes sum to n), and any two sizes differ by at most 1.
C1_RangesPartition ==
  ConfigN >= 0 =>
    /\ \A p \in Done : runs[p].start <= runs[p].end
    /\ \A p, q \in Done : p # q => RangeSet(runs[p]) \cap RangeSet(runs[q]) = {}
    /\ \A p, q \in Done : q = p + 1 => runs[q].start = runs[p].end
    /\ 0 \in Done => runs[0].start = ConfigStart
    /\ (config.process_count - 1) \in Done =>
         runs[config.process_count - 1].end = ConfigEnd
    /\ \A p, q \in Done : RangeSize(runs[p]) - RangeSize(runs[q]) <= 1
    /\ AllDone =>
         /\ UNION { RangeSet(runs[p]) : p \in Done } =
              ConfigStart .. (ConfigEnd - 1)
         /\ SumSizes(Done) = ConfigN

\* Every process of a 3-process job has its range of a slice that does not
\* start at 0 and does not divide evenly.
C1_Witness ==
  /\ AllDone /\ config.process_count = 3
  /\ ConfigStart > 0 /\ ConfigN > 3 /\ ConfigN % 3 # 0

NumShort == Cardinality({ p \in Done : runs[p].smaller_range })

\* C2 as stated: exactly n % process_count processes have is_short = True
\* when n % process_count # 0, and none when it is 0.
C2_Original ==
  AllDone => NumShort = ConfigN % config.process_count

\* C2 (amended): the number of processes with is_short = True is
\* process_count - n % process_count when n % process_count # 0, and zero
\* when n % process_count = 0.
C2_ShortCount ==
  AllDone =>
    NumShort = (IF ConfigN % config.process_count # 0
                  THEN config.process_count - (ConfigN % config.process_count)
                  ELSE 0)

\* All three processes ran and exactly two of them have the smaller range.
C2_Witness ==
  /\ AllDone /\ config.process_count = 3
  /\ ConfigN % 3 = 1 /\ NumShort = 2

\* C3 as stated: (range_size + int(is_short) + pad) % batch_size = 0 and
\* pad is the smallest non-negative integer with this property.
C3_Original ==
  \A p \in Ok :
    LET r == runs[p]
        base == RangeSize(r) + BoolToInt(r.smaller_range)
    IN  /\ (base + r.num_fake_examples) % r.batch_size_per_process = 0
        /\ r.num_fake_examples >= 0
        /\ \A k \in 0 .. (r.num_fake_examples - 1) :
             (base + k) % r.batch_size_per_process # 0

\* C3 (amended): (range_size + pad) % batch_size = 0, and pad is the
\* smallest integer >= int(is_short) with this property.
C3_PadAligns ==
  \A p \in Ok :
    LET r == runs[p]
        short == BoolToInt(r.smaller_range)
    IN  /\ (RangeSize(r) + r.num_fake_examples) % r.batch_size_per_process = 0
        /\ r.num_fake_examples >= short
        /\ \A k \in short .. (r.num_fake_examples - 1) :
             (RangeSize(r) + k) % r.batch_size_per_process # 0

\* A process with a smaller range whose size is already a multiple of the
\* per-process batch size (> 1) has computed its padding.
C3_Witness ==
  \E p \in Ok :
    /\ runs[p].smaller_range
    /\ runs[p].batch_size_per_process > 1
    /\ RangeSize(runs[p]) > 0
    /\ RangeSize(runs[p]) % runs[p].batch_size_per_process = 0
    /\ runs[p].num_fake_examples = runs[p].batch_size_per_process

\* C4 as stated: range_size + short_correction + pad_count is the same for
\* every process id.
C4_Original ==
  \A p, q \in Ok :
    RangeSize(runs[p]) + BoolToInt(runs[p].smaller_range)
        + runs[p].num_fake_examples
      = RangeSize(runs[q]) + BoolToInt(runs[q].smaller_range)
        + runs[q].num_fake_examples

\* C4 (amended): range_size + pad_count is the same for every process id.
C4_PaddedLengthEqual ==
  \A p, q \in Ok :
    RangeSize(runs[p]) + runs[p].num_fake_examples
      = RangeSize(runs[q]) + runs[q].num_fake_examples

\* All processes of a job with uneven ranges and a per-process batch size
\* above 1 have computed their padding.
C4_Witness ==
  /\ AllDone /\ Ok = Procs(config) /\ config.process_count >= 2
  /\ \E p, q \in Ok : runs[p].smaller_range /\ ~runs[q].smaller_range
  /\ \A p \in Ok : runs[p].batch_size_per_process > 1

\* C5: the assembled stream (source records, then num_fake_examples
\* padding records, batched with drop_remainder) yields the same number of
\* batches on every process id.
C5_SameBatchCount ==
  \A p, q \in Ok : runs[p].batches = runs[q].batches

\* C6: the real examples a process reads are exactly those with indices in
\* its range [start, end), so two processes read disjoint examples.
C6_ReadsOwnRange ==
  /\ \A p \in Ok : RealExamples(runs[p]) = RangeSet(runs[p])
  /\ \A p, q \in Ok :
       p # q => RealExamples(runs[p]) \cap RealExamples(runs[q]) = {}

\* ceil(n / process_count) for the n = full_end - full_start of the job.
CeilPerHost == (ConfigN + config.process_count - 1) \div config.process_count

PaddedLength(r) == RangeSize(r) + r.num_fake_examples

\* C11: for n >= 0, process_count >= 1 and per-process batch size b >= 1,
\* (end - start) + num_fake_examples is the same for every process id and is
\* the smallest multiple of b that is >= ceil(n / process_count); hence
\* 0 <= num_fake_examples <= b.
C11_PaddedLengthIsCeilMultiple ==
  /\ \A p \in Ok :
       LET r == runs[p]
           b == r.batch_size_per_process
       IN  /\ b >= 1
           /\ PaddedLength(r) % b = 0
           /\ PaddedLength(r) >= CeilPerHost
           /\ PaddedLength(r) - b < CeilPerHost
           /\ 0 <= r.num_fake_examples
           /\ r.num_fake_examples <= b
  /\ \A p, q \in Ok : PaddedLength(runs[p]) = PaddedLength(runs[q])

\* All processes of a job with uneven ranges have computed their padding
\* and the upper end of the padding interval occurs: a process with the
\* smaller range pads a full batch (b > 1) while one with the larger range
\* pads b - 1 records, and both reach the same length.
C11_Witness ==
  /\ AllDone /\ Ok = Procs(config) /\ config.process_count >= 2
  /\ CeilPerHost >= 2
  /\ \E p, q \in Ok :
       /\ ~runs[p].smaller_range
       /\ runs[p].num_fake_examples = runs[p].batch_size_per_process - 1
       /\ runs[q].smaller_range /\ runs[q].batch_size_per_process > 1
       /\ runs[q].num_fake_examples = runs[q].batch_size_per_process
       /\ PaddedLength(runs[p]) = PaddedLength(runs[q])

\* The bounds (from_, to) of the requested slice: an absent (None) bound
\* stands for 0 and for the split's number of examples.
RequestedFrom ==
  IF config.abs_ri[1].from_ = None THEN 0 ELSE config.abs_ri[1].from_

RequestedTo ==
  IF config.abs_ri[1].to = None THEN config.num_examples
  ELSE config.abs_ri[1].to

\* C12: for a single-block slice (from_, to), 0 <= from_ <= to <= total,
\* including to = 0 and from_ = 0, the range is computed with
\* full_start = from_ and full_end = to: every returned range satisfies
\* from_ <= start <= end <= to and the range sizes of all process ids sum
\* to to - from_; only an absent bound falls back to 0 or to the total.
C12_RangeWithinRequestedSlice ==
  /\ \A p \in Done :
       /\ RequestedFrom <= runs[p].start
       /\ runs[p].start <= runs[p].end
       /\ runs[p].end <= RequestedTo
  /\ 0 \in Done => runs[0].start = RequestedFrom
  /\ AllDone =>
       /\ runs[config.process_count - 1].end = RequestedTo
       /\ SumSizes(Done) = RequestedTo - RequestedFrom

---------------------------------------------------------------------------
(* Properties of the pipeline assembly, over Spec.                         *)

Stages(v) == { v[i] : i \in 1 .. Len(v) }

BatchCheckPassed ==
  "BatchChecked" \in Stages(visited) \/ "GdChecked" \in Stages(visited)

BatchCheckRejected == returned.kind = "error" /\ returned.error = BatchError

SourceTouched ==
  "SourceLoaded" \in Stages(visited) \/ "GdLoaded" \in Stages(visited)

\* a divides b
Divides(a, b) == \E k \in 0 .. b : a * k = b

\* C7 as stated: construction is rejected, before any example is read,
\* unless the batch size evenly divides both the process count and the
\* device count, and passes the check whenever it does.
C7_Original ==
  /\ BatchCheckRejected =>
       /\ ~SourceTouched
       /\ ~(/\ Divides(locals.batch_size, topo.process_count)
            /\ Divides(locals.batch_size, topo.device_count))
  /\ BatchCheckPassed =>
       /\ Divides(locals.batch_size, topo.process_count)
       /\ Divides(locals.batch_size, topo.device_count)

\* C7 (amended): construction is rejected with a ValueError and returns no
\* dataset, before the dataset source is touched, unless the process count
\* and the device count both evenly divide the batch size; every
\* (batch_size, process_count, device_count) that meets this passes the
\* check.
C7_BatchSizeCheck ==
  /\ BatchCheckRejected =>
       /\ ~SourceTouched
       /\ returned.keys = {}
       /\ ~(/\ Divides(topo.process_count, locals.batch_size)
            /\ Divides(topo.device_count, locals.batch_size))
  /\ BatchCheckPassed =>
       /\ Divides(topo.process_count, locals.batch_size)
       /\ Divides(topo.device_count, locals.batch_size)

\* A batch size of 4 has passed the check on 2 processes with 4 devices.
C7_Witness ==
  /\ BatchCheckPassed /\ SourceTouched
  /\ topo.process_count = 2 /\ topo.device_count = 4
  /\ locals.batch_size = 4

MainStages ==
  <<"SplitResolved", "RangeComputed", "Transformed", "Padded", "Batched",
    "Ready">>

IsMainStage(s) == s \in Stages(MainStages)

IsPrefix(a, b) ==
  /\ Len(a) <= Len(b)
  /\ \A i \in 1 .. Len(a) : a[i] = b[i]

\* C9: every run of the assembly passes through the stages split metadata
\* resolved, range computed, transform built and mapped, padding appended,
\* batched, ready in exactly that order, each at most once and only after
\* the previous one succeeded; when a stage fails the error reaches the
\* caller and no dataset, and no partial dictionary of datasets, is
\* returned.
C9_StagesInOrder ==
  /\ call.fn = "get_eval_dataset" =>
       IsPrefix(SelectSeq(visited, IsMainStage), MainStages)
  /\ stage = "Raised" <=> returned.kind = "error"
  /\ returned.kind = "error" => returned.keys = {}
  /\ datasets # {} => SelectSeq(visited, IsMainStage) = MainStages
  /\ returned.kind = "datasets" =>
       /\ returned.keys = { call.variants[i].variant :
                              i \in 1 .. Len(call.variants) }
       /\ \A i \in 1 .. Len(call.variants) :
            /\ call.variants[i].isConfigDict
            /\ call.variants[i].variant = "test"

\* The dataset of 'test' was assembled through every stage and stored, the
\* next variant failed, and the caller got the error and no dictionary.
C9_Witness ==
  /\ call.fn = "get_eval_dataset"
  /\ datasets = {"test"}
  /\ SelectSeq(visited, IsMainStage) = MainStages
  /\ returned.kind = "error" /\ returned.keys = {}

---------------------------------------------------------------------------
(* Properties of the composed function, over ComposeSpec.                  *)

RECURSIVE ApplyFirst(_, _, _)
\* The value after the first n transforms of fs, in order, on v.
ApplyFirst(fs, n, v) ==
  IF n = 0 THEN v
  ELSE ApplyTransform(fs[n], ApplyFirst(fs, n - 1, v)).value

\* C8 as stated: the composed call fails with a TypeError whenever an
\* intermediate value or the result is not a dict, so a non-dict that a
\* stage returned is never passed on or returned.
C8_Original ==
  composeOut \in {"running", "returned"} => data.isdict

\* C8 (amended): the composed function applies the transforms in sequence
\* order and raises TypeError, before applying any transform, exactly when
\* its own argument is not a dict; what the stages return is not checked.
C8_ComposeChecksArgument ==
  /\ composeOut = "TypeError" <=> (composeOut # "idle" /\ ~composeIn.isdict)
  /\ composeOut = "TypeError" => data = composeIn /\ fnPos = 0
  /\ composeOut \in {"running", "returned", "StageError"} =>
       /\ fnPos \in 1 .. (Len(fns) + 1)
       /\ data = ApplyFirst(fns, fnPos - 1, composeIn)
  /\ composeOut = "returned" => fnPos = Len(fns) + 1

\* A dict went in, the last of several stages produced a non-dict, and the
\* composed call returned it.
C8_Witness ==
  /\ composeOut = "returned" /\ composeIn.isdict /\ ~data.isdict
  /\ Len(fns) >= 2 /\ "add_y" \in Stages(fns)

---------------------------------------------------------------------------
(* Properties of the memo cache, over CacheSpec.                           *)

\* C10: the cache holds one entry per (name, data_dir) looked up
\* successfully; an entry is never removed or replaced; a lookup whose
\* (name, data_dir) is stored returns the stored metadata, whatever
\* manual_dir and try_gcs it passes, without calling the provider.
C10_CacheStable ==
  [][LET l == lastLookup'
         k == <<l.name, l.data_dir>>
     IN  /\ \A x \in DOMAIN cache : x \in DOMAIN cache' /\ cache'[x] = cache[x]
         /\ k \in DOMAIN cache =>
              /\ l.outcome = "returned" /\ l.result = cache[k]
              /\ providerCalls' = providerCalls
              /\ cache' = cache
         /\ k \notin DOMAIN cache =>
              /\ providerCalls' = providerCalls + 1
              /\ l.outcome = "returned" =>
                   /\ DOMAIN cache' = DOMAIN cache \cup {k}
                   /\ cache'[k] = l.result
              /\ l.outcome = "raised" => cache' = cache
    ]_vars

\* Two keys are stored, the provider has also failed once or been called
\* for both, and the latest lookup was answered from the cache although it
\* passed another manual_dir and try_gcs.
C10_Witness ==
  /\ Cardinality(DOMAIN cache) >= 2
  /\ providerCalls >= 3
  /\ lastLookup.hit /\ lastLookup.try_gcs /\ lastLookup.manual_dir = "/m2"
  /\ lastLookup.result = cache[<<lastLookup.name, lastLookup.data_dir>>]

=============================================================================
